---- MODULE Spec2Model ----
(***************************************************************************)
(* LineFollower: the bump-switch driver (BumpInt.c) and the QTRX           *)
(* reflectance-array driver (Reflectance.c) of an MSP432 robot.            *)
(*                                                                         *)
(* Every C function is a straight-line list of register operations.  A     *)
(* function F is modelled by F_Ops (the operations, in program order) and, *)
(* when it returns a value, F_Ret; one action per function runs the whole  *)
(* list on the register file `reg` and records the call in `last`.         *)
(***************************************************************************)
EXTENDS Integers, Sequences, FiniteSets

VARIABLES reg, last, prev, inited

vars == <<reg, last, prev, inited>>

(* ------------------------------ bounds -------------------------------- *)

\* wait times handed to Reflectance_Read / Reflectance_Center: 0..MaxTime us
MaxTime == 1
\* register patterns the hardware may hold before any driver call
MaxInit == 1
\* pin levels sampled in the full reflectance specification
MaxSample == 3

(* ------------------------- program constants -------------------------- *)

BumpMask == 237
LedEven == 8
LedOdd == 4
AllPins == 255
ChargeTime == 10
CenterMask == 24
CenterShift == 3

(* --------------------------- C bit operators -------------------------- *)

Byte == 0..255

\* bit i of x
Bit(x, i) == (x \div (2 ^ i)) % 2

\* the bitwise operators on four-bit halves, tabulated bit by bit
AndNibble ==
    [a \in 0..15 |-> [b \in 0..15 |->
        Bit(a, 0) * Bit(b, 0) + 2 * (Bit(a, 1) * Bit(b, 1))
        + 4 * (Bit(a, 2) * Bit(b, 2)) + 8 * (Bit(a, 3) * Bit(b, 3))]]

\* a & b, a | b, ~a on uint8_t; a >> n
And(a, b) == AndNibble[a % 16][b % 16] + 16 * AndNibble[a \div 16][b \div 16]
Or(a, b) == a + b - And(a, b)
Not(a) == 255 - a
Shr(a, n) == a \div (2 ^ n)

(* ---------------------------- register file --------------------------- *)

P4Regs == {"P4.SEL0", "P4.SEL1", "P4.DIR", "P4.REN", "P4.OUT", "P4.IES", "P4.IFG", "P4.IE"}
P5Regs == {"P5.SEL0", "P5.SEL1", "P5.DIR", "P5.DS", "P5.OUT"}
P9Regs == {"P9.SEL0", "P9.SEL1", "P9.DIR", "P9.DS", "P9.OUT"}
P7Regs == {"P7.SEL0", "P7.SEL1", "P7.DIR", "P7.REN", "P7.OUT"}
\* 32-bit NVIC words, kept as four bytes, least significant first
NvicRegs == {"NVIC.IP9", "NVIC.ISER1"}
\* the global interrupt enable: 1 after EnableInterrupts()
CpuRegs == {"CPU.I"}

ByteRegs == P4Regs \cup P5Regs \cup P9Regs \cup P7Regs \cup CpuRegs
RegNames == ByteRegs \cup NvicRegs

Word(b) == <<b, b, b, b>>

(* --------------------------- one operation ---------------------------- *)

\* k: "and" (r &= v), "or" (r |= v), "set" (r = v),
\*    "rmw" (r = (r & v[1]) | v[2], a 32-bit word), "in" (read of an input
\*    register), "delay" (Clock_Delay1us(v)), "ei" (EnableInterrupts())
Op(k, r, v) == [k |-> k, r |-> r, v |-> v]

\* mutant of Exec: |= written as ^=
Exec_OrToggles(s, op) ==
    CASE op.k = "and" -> [s EXCEPT ![op.r] = And(@, op.v)]
      [] op.k = "or" -> [s EXCEPT ![op.r] = @ + op.v - 2 * And(@, op.v)]
      [] op.k = "set" -> [s EXCEPT ![op.r] = op.v]
      [] op.k = "rmw" ->
            [s EXCEPT ![op.r] = [i \in 1..4 |-> Or(And(@[i], op.v[1][i]), op.v[2][i])]]
      [] op.k = "ei" -> [s EXCEPT !["CPU.I"] = 1]
      [] OTHER -> s

Exec(s, op) ==
    CASE op.k = "and" -> [s EXCEPT ![op.r] = And(@, op.v)]
      [] op.k = "or" -> [s EXCEPT ![op.r] = Or(@, op.v)]
      [] op.k = "set" -> [s EXCEPT ![op.r] = op.v]
      [] op.k = "rmw" ->
            [s EXCEPT ![op.r] = [i \in 1..4 |-> Or(And(@[i], op.v[1][i]), op.v[2][i])]]
      [] op.k = "ei" -> [s EXCEPT !["CPU.I"] = 1]
      [] OTHER -> s

RECURSIVE RunOps(_, _)
RunOps(s, ops) ==
    IF ops = <<>> THEN s ELSE RunOps(Exec(s, Head(ops)), Tail(ops))

\* the register file just before operation i of a call that started in pre
StateBefore(pre, ops, i) == RunOps(pre, SubSeq(ops, 1, i - 1))

(* ------------------------------ BumpInt.c ----------------------------- *)

\* NVIC->IP[9] = (NVIC->IP[9]&0xFF0FFFFF)|0x00200000, least significant
\* byte first
Ip9Keep == <<255, 255, 15, 255>>
Ip9Prio == <<0, 0, 32, 0>>
\* NVIC->ISER[1] = 0x00000040
Iser1Irq38 == <<64, 0, 0, 0>>

\* mutant of BumpInt_InitOps: the interrupts are armed before the flags
\* are cleared
BumpInt_InitOps_ArmFirst ==
    << Op("and", "P4.SEL0", Not(BumpMask)),
       Op("and", "P4.SEL1", Not(BumpMask)),
       Op("and", "P4.DIR", Not(BumpMask)),
       Op("or", "P4.REN", BumpMask),
       Op("or", "P4.OUT", BumpMask),
       Op("or", "P4.IES", BumpMask),
       Op("or", "P4.IE", BumpMask),
       Op("and", "P4.IFG", Not(BumpMask)),
       Op("rmw", "NVIC.IP9", <<Ip9Keep, Ip9Prio>>),
       Op("set", "NVIC.ISER1", Iser1Irq38),
       Op("ei", "CPU.I", 0) >>

BumpInt_InitOps ==
    << Op("and", "P4.SEL0", Not(BumpMask)),
       Op("and", "P4.SEL1", Not(BumpMask)),
       Op("and", "P4.DIR", Not(BumpMask)),
       Op("or", "P4.REN", BumpMask),
       Op("or", "P4.OUT", BumpMask),
       Op("or", "P4.IES", BumpMask),
       Op("and", "P4.IFG", Not(BumpMask)),
       Op("or", "P4.IE", BumpMask),
       Op("rmw", "NVIC.IP9", <<Ip9Keep, Ip9Prio>>),
       Op("set", "NVIC.ISER1", Iser1Irq38),
       Op("ei", "CPU.I", 0) >>

\* the body of Bump_Read touches no register
Bump_ReadOps == <<>>

\* "return 0; // replace this line": the pin levels pins are not read
Bump_ReadRet(pins) == 0

(* ---------------------------- Reflectance.c --------------------------- *)

Reflectance_InitOps ==
    << Op("and", "P5.SEL0", Not(LedEven)),
       Op("and", "P5.SEL1", Not(LedEven)),
       Op("or", "P5.DIR", LedEven),
       Op("or", "P5.DS", LedEven),
       Op("and", "P5.OUT", Not(LedEven)),
       Op("and", "P9.SEL0", Not(LedOdd)),
       Op("and", "P9.SEL1", Not(LedOdd)),
       Op("or", "P9.DIR", LedOdd),
       Op("or", "P9.DS", LedOdd),
       Op("and", "P9.OUT", Not(LedOdd)),
       Op("and", "P7.SEL0", Not(AllPins)),
       Op("and", "P7.SEL1", Not(AllPins)),
       Op("and", "P7.DIR", Not(AllPins)),
       Op("and", "P7.REN", Not(AllPins)) >>

Reflectance_StartOps ==
    << Op("or", "P5.OUT", LedEven),
       Op("or", "P9.OUT", LedOdd),
       Op("set", "P7.DIR", AllPins),
       Op("set", "P7.OUT", AllPins),
       Op("delay", "Clock", ChargeTime),
       Op("set", "P7.DIR", 0) >>

\* mutant of Reflectance_EndOps: the odd LED is left on
Reflectance_EndOps_OddLeftOn ==
    << Op("in", "P7.IN", 0),
       Op("and", "P5.OUT", Not(LedEven)) >>

Reflectance_EndOps ==
    << Op("in", "P7.IN", 0),
       Op("and", "P5.OUT", Not(LedEven)),
       Op("and", "P9.OUT", Not(LedOdd)) >>

\* result = P7->IN
Reflectance_EndRet(pins) == pins

\* mutant of Reflectance_ReadOps: the pins are sampled before they are
\* switched to inputs
Reflectance_ReadOps_EarlySample(time) ==
    << Op("or", "P5.OUT", LedEven),
       Op("or", "P9.OUT", LedOdd),
       Op("set", "P7.DIR", AllPins),
       Op("set", "P7.OUT", AllPins),
       Op("delay", "Clock", ChargeTime),
       Op("delay", "Clock", time),
       Op("in", "P7.IN", 0),
       Op("set", "P7.DIR", 0),
       Op("and", "P5.OUT", Not(LedEven)),
       Op("and", "P9.OUT", Not(LedOdd)) >>

Reflectance_ReadOps(time) ==
    << Op("or", "P5.OUT", LedEven),
       Op("or", "P9.OUT", LedOdd),
       Op("set", "P7.DIR", AllPins),
       Op("set", "P7.OUT", AllPins),
       Op("delay", "Clock", ChargeTime),
       Op("set", "P7.DIR", 0),
       Op("delay", "Clock", time),
       Op("in", "P7.IN", 0),
       Op("and", "P5.OUT", Not(LedEven)),
       Op("and", "P9.OUT", Not(LedOdd)) >>

Reflectance_ReadRet(pins) == pins

\* mutant of Reflectance_CenterOps: the odd LED is left on
Reflectance_CenterOps_OddLeftOn(time) ==
    << Op("or", "P5.OUT", LedEven),
       Op("or", "P9.OUT", LedOdd),
       Op("set", "P7.DIR", AllPins),
       Op("set", "P7.OUT", AllPins),
       Op("delay", "Clock", ChargeTime),
       Op("set", "P7.DIR", 0),
       Op("delay", "Clock", time),
       Op("in", "P7.IN", 0),
       Op("and", "P5.OUT", Not(LedEven)) >>

Reflectance_CenterOps(time) ==
    << Op("or", "P5.OUT", LedEven),
       Op("or", "P9.OUT", LedOdd),
       Op("set", "P7.DIR", AllPins),
       Op("set", "P7.OUT", AllPins),
       Op("delay", "Clock", ChargeTime),
       Op("set", "P7.DIR", 0),
       Op("delay", "Clock", time),
       Op("in", "P7.IN", 0),
       Op("and", "P5.OUT", Not(LedEven)),
       Op("and", "P9.OUT", Not(LedOdd)) >>

\* mutant of Reflectance_CenterRet: the mask is forgotten
Reflectance_CenterRet_NoMask(pins) == Shr(pins, CenterShift)

\* result = (P7->IN&0x18)>>3
Reflectance_CenterRet(pins) == Shr(And(pins, CenterMask), CenterShift)

\* mutant of w: one weight mistyped
w_Mistyped == <<-33400, -23800, -14300, -4800, 4800, 14300, 23800, 33300>>

\* int32_t w[]
w == <<-33400, -23800, -14300, -4800, 4800, 14300, 23800, 33400>>

\* the for loop of Reflectance_Position: <<weightsum, bitsum>> after it
RECURSIVE PositionLoop(_, _, _, _)
PositionLoop(data, i, weightsum, bitsum) ==
    IF i < 8
    THEN LET b == And(Shr(data, i), 1)
         IN  PositionLoop(data, i + 1, weightsum + b * w[i + 1], bitsum + b)
    ELSE <<weightsum, bitsum>>

\* mutant of CDiv: the quotient is floored
CDiv_Floor(a, b) == a \div b

\* C's int32_t a / b for b > 0: the quotient is truncated toward zero
CDiv(a, b) == IF a >= 0 THEN a \div b ELSE -((-a) \div b)

\* weightsum/bitsum with bitsum = 0 is undefined behaviour: the Cortex-M4
\* SDIV yields 0, or raises a UsageFault when DIV_0_TRP is set; a compiler
\* may also leave any other value
DivByZeroOutcomes ==
    {[trap |-> TRUE, ret |-> 0], [trap |-> FALSE, ret |-> 0], [trap |-> FALSE, ret |-> -1]}

\* <<weightsum, bitsum>> after the loop, for every uint8_t data
PositionSums == [data \in Byte |-> PositionLoop(data, 0, 0, 0)]

\* position = weightsum/bitsum, where bitsum is not 0
Reflectance_PositionRet(data) == CDiv(PositionSums[data][1], PositionSums[data][2])

(* -------------------------------- calls ------------------------------- *)

NoCall == [name |-> "reset", t |-> 0, pre |-> <<>>, ops |-> <<>>]

\* the record of one whole call of a driver function: its name, wait time,
\* the pin levels at its sample, the registers it started from, the
\* operations it ran and what it returned
Record(name, t, pins, ops, ret, divzero, trap) ==
    /\ last' = [name |-> name, t |-> t, inp |-> pins, pre |-> reg, ops |-> ops,
                ret |-> ret, divzero |-> divzero, trap |-> trap]
    /\ prev' = [name |-> last.name, t |-> last.t, pre |-> last.pre, ops |-> last.ops]
    /\ inited' = IF name \in {"BumpInt_Init", "Reflectance_Init"}
                 THEN inited \cup {name} ELSE inited

Times == 0..MaxTime
SampleBytes == {(k * 85) % 256 : k \in 0..MaxSample}

BumpInt_Init ==
    /\ reg' = RunOps(reg, BumpInt_InitOps)
    /\ Record("BumpInt_Init", 0, 0, BumpInt_InitOps, 0, FALSE, FALSE)

\* pins: the levels of the eight port-4 pins during the call
Bump_Read ==
    \E pins \in Byte :
        /\ reg' = RunOps(reg, Bump_ReadOps)
        /\ Record("Bump_Read", 0, pins, Bump_ReadOps, Bump_ReadRet(pins), FALSE, FALSE)

Reflectance_Init ==
    /\ reg' = RunOps(reg, Reflectance_InitOps)
    /\ Record("Reflectance_Init", 0, 0, Reflectance_InitOps, 0, FALSE, FALSE)

\* pins: the levels of the eight port-7 pins at the read of P7->IN
Reflectance_Read ==
    \E time \in Times :
        LET ops == Reflectance_ReadOps(time)
            post == RunOps(reg, ops)
        IN  \E pins \in SampleBytes :
                /\ reg' = post
                /\ Record("Reflectance_Read", time, pins, ops,
                          Reflectance_ReadRet(pins), FALSE, FALSE)

Reflectance_Center ==
    \E time \in Times :
        LET ops == Reflectance_CenterOps(time)
            post == RunOps(reg, ops)
        IN  \E pins \in SampleBytes :
                /\ reg' = post
                /\ Record("Reflectance_Center", time, pins, ops,
                          Reflectance_CenterRet(pins), FALSE, FALSE)

\* Reflectance_Center with every level of the eight pins, at the longest wait
Reflectance_CenterAll ==
    \E time \in {MaxTime} :
        LET ops == Reflectance_CenterOps(time)
            post == RunOps(reg, ops)
        IN  \E pins \in Byte :
                /\ reg' = post
                /\ Record("Reflectance_Center", time, pins, ops,
                          Reflectance_CenterRet(pins), FALSE, FALSE)

Reflectance_Start ==
    /\ reg' = RunOps(reg, Reflectance_StartOps)
    /\ Record("Reflectance_Start", 0, 0, Reflectance_StartOps, 0, FALSE, FALSE)

Reflectance_End ==
    LET post == RunOps(reg, Reflectance_EndOps)
    IN  \E pins \in SampleBytes :
            /\ reg' = post
            /\ Record("Reflectance_End", 0, pins, Reflectance_EndOps,
                      Reflectance_EndRet(pins), FALSE, FALSE)

Reflectance_Position ==
    \E data \in Byte :
        /\ reg' = reg
        /\ IF PositionSums[data][2] # 0
           THEN Record("Reflectance_Position", 0, data, <<>>,
                       Reflectance_PositionRet(data), FALSE, FALSE)
           ELSE \E o \in DivByZeroOutcomes :
                    Record("Reflectance_Position", 0, data, <<>>, o.ret, TRUE, o.trap)

(* --------------------------- specifications --------------------------- *)

InitBytes == {(k * 255) % 256 : k \in 0..MaxInit}

\* the register file with every register of a port holding that port's pattern
RegFile(b4, b5, b7, b9, bn, bi) ==
    [r \in RegNames |->
        IF r \in P4Regs THEN b4
        ELSE IF r \in P5Regs THEN b5
        ELSE IF r \in P7Regs THEN b7
        ELSE IF r \in P9Regs THEN b9
        ELSE IF r \in NvicRegs THEN Word(bn)
        ELSE bi]

InitCall(s) ==
    /\ reg = s
    /\ last = [name |-> "reset", t |-> 0, inp |-> 0, pre |-> s, ops |-> <<>>,
               ret |-> 0, divzero |-> FALSE, trap |-> FALSE]
    /\ prev = NoCall
    /\ inited = {}

\* both drivers' initialisation, from any register pattern
Init ==
    \E b4, b5, b7, b9, bn \in InitBytes, bi \in {0, 1} :
        InitCall(RegFile(b4, b5, b7, b9, bn, bi))

Next == BumpInt_Init \/ Reflectance_Init

Spec == Init /\ [][Next]_vars

\* the bump-switch driver
InitBump ==
    \E b4, bn \in InitBytes, bi \in {0, 1} : InitCall(RegFile(b4, 0, 0, 0, bn, bi))

NextBump == BumpInt_Init \/ Bump_Read

SpecBump == InitBump /\ [][NextBump]_vars

\* the reflectance driver's register protocol
InitRefl ==
    \E b5, b7, b9 \in InitBytes : InitCall(RegFile(0, b5, b7, b9, 0, 0))

NextRefl ==
    \/ Reflectance_Init
    \/ Reflectance_Read
    \/ Reflectance_Center
    \/ Reflectance_Start
    \/ Reflectance_End

SpecRefl == InitRefl /\ [][NextRefl]_vars

\* Reflectance_Center over every level of the eight pins
InitCenter == InitCall(RegFile(0, 0, 0, 0, 0, 0))

NextCenter == Reflectance_Init \/ Reflectance_CenterAll

SpecCenter == InitCenter /\ [][NextCenter]_vars

\* Reflectance_Position over every snapshot
InitPosition == InitCall(RegFile(0, 0, 0, 0, 0, 0))

NextPosition == Reflectance_Position

SpecPosition == InitPosition /\ [][NextPosition]_vars

(* ------------------------------- claims ------------------------------- *)

Abs(x) == IF x < 0 THEN -x ELSE x

\* the sensors whose bit is set in a snapshot
SetBits(data) == {i \in 0..7 : Bit(data, i) = 1}

RECURSIVE SumOver(_, _)
SumOver(f, S) ==
    IF S = {} THEN 0
    ELSE LET i == CHOOSE j \in S : TRUE IN f[i] + SumOver(f, S \ {i})

\* the snapshot with bit i set exactly when bit 7-i of data is set
Mirror(data) == SumOver([i \in 0..7 |-> 2 ^ (7 - i)], SetBits(data))

EvenLedOn(s) == And(s["P5.OUT"], LedEven) # 0
OddLedOn(s) == And(s["P9.OUT"], LedOdd) # 0

\* C1: for a snapshot with a bit set, Reflectance_Position returns the sum
\* of the weights of the set bits divided by their number, truncated toward
\* zero; a single set bit i returns w[i].
C1_PositionTruncatedMean ==
    (last.name = "Reflectance_Position" /\ last.inp # 0) =>
        LET weight == <<-33400, -23800, -14300, -4800, 4800, 14300, 23800, 33400>>
            S == SetBits(last.inp)
            n == Cardinality(S)
            sum == SumOver([i \in 0..7 |-> weight[i + 1]], S)
            q == last.ret
        IN  /\ ~last.divzero /\ ~last.trap
            /\ Abs(q) * n <= Abs(sum)
            /\ Abs(sum) < (Abs(q) + 1) * n
            /\ (sum >= 0 => q >= 0)
            /\ (sum <= 0 => q <= 0)
            /\ \A i \in 0..7 : S = {i} => q = weight[i + 1]
            /\ (last.inp = 1 => q = -33400)
            /\ (last.inp = 128 => q = 33400)

\* bits 0, 1, 2 set: -71500 / 3 is -23833 truncated (-23834 floored)
C1_Witness ==
    last.name = "Reflectance_Position" /\ last.inp = 7 /\ last.ret = -23833

\* C2: Reflectance_Position(0) raises a defined fault or returns a sentinel
\* and never divides by zero.
C2_ZeroSnapshotNeverDivides ==
    (last.name = "Reflectance_Position" /\ last.inp = 0) => ~last.divzero

\* C3: the position of the mirrored snapshot is the negated position, and a
\* self-mirrored snapshot (0xFF among them) has position 0.
C3_MirrorNegates ==
    (last.name = "Reflectance_Position" /\ last.inp # 0) =>
        /\ Reflectance_PositionRet(Mirror(last.inp)) = -last.ret
        /\ (Mirror(last.inp) = last.inp => last.ret = 0)
        /\ (last.inp = 255 => last.ret = 0)

\* 0xE0 mirrors 0x07
C3_Witness ==
    /\ last.name = "Reflectance_Position" /\ last.inp = 224
    /\ Mirror(last.inp) = 7 /\ last.ret = 23833

\* C4: Reflectance_Center returns bit 3 of the sampled port as bit 0 and
\* bit 4 as bit 1, a value in 0..3, whatever the other six bits.
C4_CenterCode ==
    last.name = "Reflectance_Center" =>
        /\ last.ret \in 0..3
        /\ last.ret = Bit(last.inp, 3) + 2 * Bit(last.inp, 4)
        /\ \A other \in Byte :
               (Bit(other, 3) = Bit(last.inp, 3) /\ Bit(other, 4) = Bit(last.inp, 4))
                   => Reflectance_CenterRet(other) = last.ret

\* 0xEF: every bit but the left-center one
C4_Witness ==
    last.name = "Reflectance_Center" /\ last.inp = 239 /\ last.ret = 1

\* the port-4 pins of Bump0..Bump5
BumpPins == <<0, 2, 3, 5, 6, 7>>

\* C5: Bump_Read returns bit k = 1 exactly when the k-th bump pin reads
\* low, and bits 6 and 7 are 0.
C5_BumpReadRepacks ==
    last.name = "Bump_Read" =>
        last.ret = SumOver([k \in 0..5 |-> (2 ^ k) * (1 - Bit(last.inp, BumpPins[k + 1]))],
                           0..5)

\* C6: a second Reflectance_Init, or a second BumpInt_Init, right after the
\* first leaves every register as the first left it.
C6_InitIdempotent ==
    (last.name = prev.name /\ last.name \in {"Reflectance_Init", "BumpInt_Init"}) =>
        reg = last.pre

C6_Witness ==
    /\ last.name = "Reflectance_Init" /\ prev.name = "Reflectance_Init"
    /\ prev.pre # last.pre
    /\ inited = {"Reflectance_Init", "BumpInt_Init"}

\* C7: after BumpInt_Init the pins of mask 0xED are GPIO inputs with
\* pull-up, falling edge selected and armed, their flags clear; the flags
\* are cleared after the edge select is written and before anything arms or
\* enables the interrupt; bits 1 and 4 of the port-4 registers are unchanged.
C7_BumpInitPostcondition ==
    last.name = "BumpInt_Init" =>
        /\ \A r \in {"P4.SEL0", "P4.SEL1", "P4.DIR", "P4.IFG"} : And(reg[r], BumpMask) = 0
        /\ \A r \in {"P4.REN", "P4.OUT", "P4.IES", "P4.IE"} :
               And(reg[r], BumpMask) = BumpMask
        /\ reg["CPU.I"] = 1
        /\ \E j \in 1..Len(last.ops) :
               /\ last.ops[j].r = "P4.IFG"
               /\ And(StateBefore(last.pre, last.ops, j + 1)["P4.IFG"], BumpMask) = 0
               /\ \E i \in 1..(j - 1) :
                      /\ last.ops[i].r = "P4.IES"
                      /\ And(StateBefore(last.pre, last.ops, i + 1)["P4.IES"], BumpMask)
                             = BumpMask
               /\ \A i \in (j + 1)..Len(last.ops) : last.ops[i].r # "P4.IES"
               /\ \A k \in 1..Len(last.ops) :
                      (last.ops[k].r \in {"P4.IE", "NVIC.ISER1", "CPU.I"}) => k > j
        /\ \A r \in P4Regs : And(reg[r], Not(BumpMask)) = And(last.pre[r], Not(BumpMask))

C7_Witness ==
    /\ last.name = "BumpInt_Init"
    /\ last.pre["P4.IFG"] = 255 /\ reg["P4.IFG"] = 18
    /\ last.pre["P4.IE"] = 255 /\ reg["P4.IE"] = 255

\* C8: Reflectance_Read(t) turns both LEDs on, then makes the P7 pins
\* outputs driven high, waits 10 us, makes them inputs in one write, waits
\* t us, samples them in one read with the pins inputs and the LEDs on,
\* then turns the LEDs off; it returns that sample.
C8_ReadProtocol ==
    last.name = "Reflectance_Read" =>
        LET ops == last.ops
            At(i) == StateBefore(last.pre, ops, i)
        IN  \E b \in 1..(Len(ops) - 3) :
                /\ ops[b] = Op("delay", "Clock", ChargeTime)
                /\ At(b)["P7.DIR"] = AllPins /\ At(b)["P7.OUT"] = AllPins
                /\ \A i \in 1..(b - 1) :
                       ops[i].r \in {"P7.DIR", "P7.OUT"} =>
                           EvenLedOn(At(i)) /\ OddLedOn(At(i))
                /\ ops[b + 1] = Op("set", "P7.DIR", 0)
                /\ ops[b + 2] = Op("delay", "Clock", last.t)
                /\ ops[b + 3].k = "in" /\ ops[b + 3].r = "P7.IN"
                /\ At(b + 3)["P7.DIR"] = 0
                /\ EvenLedOn(At(b + 3)) /\ OddLedOn(At(b + 3))
                /\ \A i \in 1..Len(ops) : ops[i].k = "in" => i = b + 3
                /\ \A i \in (b + 4)..Len(ops) : ops[i].r \in {"P5.OUT", "P9.OUT"}
                /\ ~EvenLedOn(reg) /\ ~OddLedOn(reg)
                /\ last.ret = last.inp

C8_Witness ==
    /\ last.name = "Reflectance_Read" /\ last.t = 1 /\ last.ret = 170
    /\ EvenLedOn(last.pre) /\ ~EvenLedOn(reg)

\* C9: Reflectance_Start, a wait of t us and Reflectance_End perform the
\* operations of Reflectance_Read(t), return what it returns for the same
\* pin levels and leave the registers as it leaves them.
C9_SplitPhaseEqualsRead ==
    (last.name = "Reflectance_End" /\ prev.name = "Reflectance_Start") =>
        \A t \in Times :
            /\ prev.ops \o <<Op("delay", "Clock", t)>> \o last.ops = Reflectance_ReadOps(t)
            /\ reg = RunOps(prev.pre, Reflectance_ReadOps(t))
            /\ last.ret = Reflectance_ReadRet(last.inp)

C9_Witness ==
    /\ last.name = "Reflectance_End" /\ prev.name = "Reflectance_Start"
    /\ last.ret = 85 /\ prev.pre["P7.OUT"] = 0 /\ reg["P7.OUT"] = 255

\* C10: once Reflectance_Init has run, the two LED outputs are on together
\* or off together after every call, on exactly after a Reflectance_Start,
\* and the P7 pins are inputs after Read, Center and Start.
C10_LedsPaired ==
    "Reflectance_Init" \in inited =>
        /\ EvenLedOn(reg) <=> OddLedOn(reg)
        /\ EvenLedOn(reg) <=> last.name = "Reflectance_Start"
        /\ last.name \in {"Reflectance_Read", "Reflectance_Center", "Reflectance_Start"}
               => reg["P7.DIR"] = 0

C10_Witness ==
    /\ "Reflectance_Init" \in inited
    /\ last.name = "Reflectance_Start" /\ prev.name = "Reflectance_Center"
    /\ EvenLedOn(reg) /\ OddLedOn(reg)

====
